---- MODULE Spec2Model ----
(***************************************************************************)
(* Token lifecycle, catalogue pagination and request handling of           *)
(* server.js (andar-ai-feed).  The source holds two variants of the        *)
(* server: the authorization-code + refresh-token variant (lines 1-254)    *)
(* and the client-credentials variant (lines 255-409).  A deployment runs  *)
(* one of them; `mode` says which.  Every action is one run-to-completion  *)
(* block of the Node.js event loop: from the arrival of a request or of an *)
(* upstream response body to the next network call or the HTTP response.   *)
(***************************************************************************)
EXTENDS Integers, Sequences, FiniteSets, TLC

\* ------------------------------------------------------------------ bounds
MaxPages == 3      \* listing pages the upstream answers per request
MaxIssued == 2     \* 2xx responses the token endpoint issues
MaxTicks == 1      \* clock ticks
TickSecs == {200}  \* seconds per clock tick
ExpiresInChoices == {100, 500}   \* expires_in values (seconds) of a token response
PageSizes == {0, 37, 100}        \* sizes of a listing page

\* --------------------------------------------------------- program constants
null == 0            \* null / undefined / "" : every falsy token value
MARGIN == 300000     \* the safety margin of the cache test, in ms
limit == 100         \* page size of the listing call

\* The requests that can be in flight together: two, the least number that
\* lets handlers overlap.
Reqs == {1, 2}
Modes == {"refresh", "client_credentials"}

\* Non-2xx answers of the upstream: the status, the body text sent, and what
\* JSON.stringify makes of the parsed body ("" when the text is no JSON).
ErrResponses ==
    { [status |-> 401, text |-> "{ \"error\": \"invalid\" }",
       json |-> "{\"error\":\"invalid\"}"],
      [status |-> 503, text |-> "<html>Bad Gateway</html>", json |-> ""] }

VARIABLES
    mode,           \* which variant of server.js is deployed
    overlap,        \* whether requests arrive while another is in flight
    ACCESS_TOKEN,   \* let ACCESS_TOKEN
    REFRESH_TOKEN,  \* let REFRESH_TOKEN (refresh variant only)
    TOKEN_EXPIRY,   \* let TOKEN_EXPIRY, ms
    expiryFrom,     \* the token response TOKEN_EXPIRY was last written from, by
                    \* the access_token it carried; 0 before any write (history)
    now,            \* Date.now(), ms
    ticks,          \* clock ticks so far
    validRT,        \* the refresh tokens the upstream currently accepts
    issued,         \* token responses issued so far by the token endpoint
    pc,             \* per request: where its handler is suspended
    token,          \* per request: const token of the /ai-feed handler
    sentRT,         \* per request: refresh_token carried by its refresh call
    page,           \* per request: let page
    allProducts,    \* per request: const allProducts
    resp,           \* per request: the upstream response it is about to read
    res,            \* per request: the HTTP response sent
    tokenCalls,     \* per request: calls sent to the token endpoint
    listCalls,      \* per request: calls sent to the product endpoint
    hist,           \* per request: its route, the sizes of the listing pages answered,
                    \* the non-2xx status the upstream answered, the template
                    \* read and the value of lockout at its start (history)
    last,           \* the last event at the server (history)
    lockout         \* "rejected" since a refresh call was rejected, "overtaken"
                    \* once a refresh call answered 2xx was read after that,
                    \* "recovered" once an exchange succeeded after that,
                    \* "no" before any rejection (history)

vars == <<mode, overlap, ACCESS_TOKEN, REFRESH_TOKEN, TOKEN_EXPIRY, expiryFrom, now, ticks, validRT,
          issued, pc, token, sentRT, page, allProducts, resp, res, tokenCalls,
          listCalls, hist, last, lockout>>

env == <<mode, overlap>>
tokenState == <<ACCESS_TOKEN, REFRESH_TOKEN, TOKEN_EXPIRY>>
upstream == <<validRT, issued>>
clock == <<now, ticks>>

\* ---------------------------------------------------------------- helpers
Range(s) == { s[i] : i \in 1..Len(s) }

\* `${n}` : a number rendered into a template literal
Str(n) == ToString(n)

\* ------------------------------------------------------- Token Manager (pure)
\* The cache test with its comparison turned around
CacheValid_Flipped(at, expiry, t) == at # null /\ t > expiry - MARGIN

\* The cache test taking a token exactly at the margin as still valid
CacheValid_Inclusive(at, expiry, t) == at # null /\ t <= expiry - MARGIN

\* if (ACCESS_TOKEN && Date.now() < TOKEN_EXPIRY - 300000)
CacheValid(at, expiry, t) == at # null /\ t < expiry - MARGIN

\* TOKEN_EXPIRY = Date.now() + (tokenData.expires_in * 1000)
ExpiryOf(t, tokenData) == t + tokenData.expires_in * 1000

\* The assignment without its fallback: REFRESH_TOKEN = tokenData.refresh_token
RotatedRefreshToken_NoFallback(tokenData, current) == tokenData.refresh_token

\* REFRESH_TOKEN = tokenData.refresh_token || REFRESH_TOKEN
RotatedRefreshToken(tokenData, current) ==
    IF tokenData.refresh_token # null THEN tokenData.refresh_token ELSE current

\* A 2xx body of the token endpoint: {access_token, refresh_token?, expires_in}
TokenData(at, rt, secs) ==
    [access_token |-> at, refresh_token |-> rt, expires_in |-> secs]

NoTokenData == TokenData(null, null, 0)

\* ------------------------------------------------------------ error messages
AuthRequiredMsg ==
    <<"Not authorized. No refresh token available. Please visit /auth to authorize the app.">>

RefreshFailedMsg(errorText) ==
    <<"Refresh token failed: ", errorText, ". Please re-authorize at /auth.">>

ExchangeFailedMsg(errorText) == <<"Token exchange failed: ", errorText>>

\* throw new Error("CAFE24 ...") of the catch block: the message built in the
\* try block (status and body) is logged and replaced by this fixed text.
GrantFailedMsg == <<"Cannot connect to the CAFE24 authentication server.">>

ProductUrl(p) == <<"PRODUCT_URL", "?limit=", Str(limit), "&page=", Str(p)>>

CcProductUrl == <<"PRODUCT_URL", "?limit=", Str(limit)>>

\* node-fetch's rejection of response.json() for a body that is no JSON
InvalidJsonMsg(url) ==
    <<"invalid json response body at ">> \o url \o <<" reason: Unexpected token">>

\* const errorData = await productResponse.json();
\* throw new Error(`... ${productResponse.status} - ${JSON.stringify(errorData)}`)
\* (the Korean prefix of the message is given in English)
ProductFailedMsg(url, response) ==
    IF response.json = ""
    THEN InvalidJsonMsg(url)
    ELSE <<"Product API call failed: ", Str(response.status), " - ", response.json>>

FsUndefinedMsg == <<"fs is not defined">>

TemplateReadMsg == <<"ENOENT: no such file or directory, open 'public/ai-feed.html'">>

\* ------------------------------------------------------------ HTTP responses
NoRes == [status |-> 0, kind |-> "none", location |-> "", message |-> <<>>,
          authLink |-> FALSE, html |-> <<>>, skus |-> <<>>]

Redirect(to) == [NoRes EXCEPT !.status = 302, !.kind = "redirect", !.location = to]

\* The error page without its last paragraph, the link to /auth
ErrorPage_NoLink(message) ==
    [NoRes EXCEPT !.status = 500, !.kind = "error", !.message = message]

\* res.status(500).send(...) of the /ai-feed catch block, refresh variant
ErrorPage(message) ==
    [NoRes EXCEPT !.status = 500, !.kind = "error", !.message = message,
                  !.authLink = TRUE]

\* res.status(500).send(...) of the /ai-feed catch block, client-credentials variant
CcErrorPage(message) ==
    [NoRes EXCEPT !.status = 500, !.kind = "error", !.message = message]

\* res.status(500).send(`Authentication failed: ${err.message}`)
AuthFailedPage(message) ==
    [NoRes EXCEPT !.status = 500, !.kind = "error",
                  !.message = <<"Authentication failed: ">> \o message]

\* ------------------------------------------------------------- Feed Renderer
\* The two characters dollar and backtick, which a string of this module
\* cannot hold as they are
DollarBacktick == "$<backtick>"

\* The product the upstream catalogue holds under number n.  stock_quantity is
\* <<>> when the field is absent and <<q>> otherwise; an absent image is "".
\* A name is a sequence of text pieces; the names of the products 101..104
\* hold a dollar sequence each, the other names hold none.
Product(n) ==
    [product_no |-> n,
     product_name |-> CASE n = 101 -> <<"Sale ", "$$", "9">>
                        [] n = 102 -> <<"Mix ", "$&", " match">>
                        [] n = 103 -> <<"Before ", DollarBacktick>>
                        [] n = 104 -> <<"After ", "$'">>
                        [] OTHER -> <<"name">>,
     price |-> 1000 + n,
     stock_quantity |-> CASE n % 3 = 0 -> <<>> [] n % 3 = 1 -> <<0>> [] OTHER -> <<5>>,
     detail_image |-> IF n % 2 = 0 THEN "" ELSE "detail.jpg",
     list_image |-> "list.jpg"]

\* The page p of the catalogue when it holds size records.  A record is held
\* by its product number; Product gives its fields.
ProductsOfPage(p, size) == [i \in 1..size |-> (p - 1) * limit + i]

\* The availability taking a quantity of 0 as in stock
Availability_NonNegative(product) ==
    "https://schema.org/" \o
        (IF product.stock_quantity # <<>> /\ product.stock_quantity[1] >= 0
         THEN "InStock" ELSE "OutOfStock")

\* product.stock_quantity > 0 ? "InStock" : "OutOfStock"
Availability(product) ==
    "https://schema.org/" \o
        (IF product.stock_quantity # <<>> /\ product.stock_quantity[1] > 0
         THEN "InStock" ELSE "OutOfStock")

\* product.detail_image || product.list_image
ImageOf(product) ==
    IF product.detail_image # "" THEN product.detail_image ELSE product.list_image

JsonLdProduct(product) ==
    [context |-> "https://schema.org",
     type |-> "Product",
     name |-> product.product_name,
     image |-> ImageOf(product),
     url |-> <<"https://", "MALL_ID", ".com/product/detail.html?product_no=",
               Str(product.product_no)>>,
     sku |-> product.product_no,
     offers |-> [type |-> "Offer", price |-> product.price, priceCurrency |-> "KRW",
                 availability |-> Availability(product)]]

\* allProducts.map(...)
JsonLdData(products) == [i \in 1..Len(products) |-> JsonLdProduct(Product(products[i]))]

\* JSON.stringify(jsonLdData, null, 2) as a sequence of text pieces: for each
\* entry the pieces of its name, then one piece, given by the sku, for the
\* rest of its text.
\* The entries lo..hi are rendered in order, by halves.
RECURSIVE Stringify(_, _, _)
Stringify(jsonLdData, lo, hi) ==
    IF lo > hi THEN <<>>
    ELSE IF lo = hi THEN jsonLdData[lo].name \o <<Str(jsonLdData[lo].sku)>>
    ELSE LET mid == (lo + hi) \div 2
         IN  Stringify(jsonLdData, lo, mid) \o Stringify(jsonLdData, mid + 1, hi)

ScriptOpen == "<script type=\"application/ld+json\">"

\* `<script type="application/ld+json">${JSON.stringify(jsonLdData, null, 2)}</script>`
JsonLdScript(jsonLdData) ==
    <<ScriptOpen>> \o Stringify(jsonLdData, 1, Len(jsonLdData)) \o <<"</script>">>

\* public/ai-feed.html, as a sequence of text pieces
Template == <<"<html>", "<head>", "<title>AI-FEED</title>", "</head>", "<body>",
              "</body>", "</html>">>

\* The template files the server can be deployed with: the one of the
\* repository, one with a second </head> in its body, one with none.
Templates ==
    { Template,
      <<"<html>", "<head>", "</head>", "<body>", "</head>", "</body>", "</html>">>,
      <<"<html>", "<body>", "</body>", "</html>">> }

\* The first index of s holding pat, 0 when there is none
IndexOf(s, pat) ==
    IF \E i \in 1..Len(s) : s[i] = pat
    THEN CHOOSE i \in 1..Len(s) : s[i] = pat /\ \A j \in 1..(i - 1) : s[j] # pat
    ELSE 0

\* What String.prototype.replace makes of a replacement string, for the match
\* at index i of s: $$ gives $, $& the matched text, dollar-backtick the text before the
\* match, $' the text after it; every other piece is taken as it is.  The
\* pieces lo..hi are expanded in order, by halves.
RECURSIVE Substitution(_, _, _, _, _)
Substitution(repl, s, i, lo, hi) ==
    IF lo > hi THEN <<>>
    ELSE IF lo = hi
    THEN CASE repl[lo] = "$$" -> <<"$">>
           [] repl[lo] = "$&" -> <<s[i]>>
           [] repl[lo] = DollarBacktick -> SubSeq(s, 1, i - 1)
           [] repl[lo] = "$'" -> SubSeq(s, i + 1, Len(s))
           [] OTHER -> <<repl[lo]>>
    ELSE LET mid == (lo + hi) \div 2
         IN  Substitution(repl, s, i, lo, mid) \o Substitution(repl, s, i, mid + 1, hi)

\* String.prototype.replace(pattern, replacement) with a string pattern:
\* the first occurrence only, the string unchanged when there is none
Replace(s, pat, repl) ==
    LET i == IndexOf(s, pat)
    IN  IF i = 0 THEN s
        ELSE SubSeq(s, 1, i - 1) \o Substitution(repl, s, i, 1, Len(repl))
                                 \o SubSeq(s, i + 1, Len(s))

\* htmlContent.replace('</head>', `${jsonLdScript}\n</head>`)
RenderHtml(template, jsonLdScript) ==
    Replace(template, "</head>", jsonLdScript \o <<"\n", "</head>">>)

\* res.setHeader('Content-Type', 'text/html'); res.send(htmlContent).  Of the
\* array in the page the response keeps the skus, in order.
FeedPage(products, template) ==
    LET jsonLdData == JsonLdData(products)
        html == RenderHtml(template, JsonLdScript(jsonLdData))
    IN  [NoRes EXCEPT !.status = 200, !.kind = "feed", !.html = html,
                      !.skus = IF ScriptOpen \in Range(html)
                               THEN [i \in 1..Len(jsonLdData) |-> jsonLdData[i].sku]
                               ELSE <<>>]

\* -------------------------------------------------------- upstream responses
NoResp == [status |-> 0, tokenData |-> NoTokenData, size |-> 0, text |-> "",
           json |-> "", stale |-> FALSE]

\* A 2xx answer of the token endpoint
TokenResp(tokenData) == [NoResp EXCEPT !.status = 200, !.tokenData = tokenData]

\* A non-2xx answer
ErrResp(e, stale) ==
    [NoResp EXCEPT !.status = e.status, !.text = e.text, !.json = e.json,
                   !.stale = stale]

\* response.ok
Ok(response) == response.status >= 200 /\ response.status <= 299

Pending(r) == resp[r].status # 0

\* ------------------------------------------------------------------ history
NoHist == [route |-> "none", sizes |-> <<>>, upStatus |-> 0, template |-> <<>>,
           lockout |-> "no"]

\* The history of a request at its start: its route, and lockout as it is then
StartHist(route) == [NoHist EXCEPT !.route = route, !.lockout = lockout]

\* --------------------------------------------------------------------- Init
\* The environment is one of two: requests overlap and the upstream answers
\* one listing page per request, or requests come one at a time and the
\* upstream answers up to MaxPages pages.
PageBound == IF overlap THEN 1 ELSE MaxPages

Init ==
    /\ mode \in Modes
    /\ overlap \in BOOLEAN
    /\ ACCESS_TOKEN = null
    /\ REFRESH_TOKEN = null
    /\ TOKEN_EXPIRY = 0
    /\ expiryFrom = 0
    /\ now = 0
    /\ ticks = 0
    /\ validRT = {}
    /\ issued = 0
    /\ pc = [r \in Reqs |-> "idle"]
    /\ token = [r \in Reqs |-> null]
    /\ sentRT = [r \in Reqs |-> null]
    /\ page = [r \in Reqs |-> 0]
    /\ allProducts = [r \in Reqs |-> <<>>]
    /\ resp = [r \in Reqs |-> NoResp]
    /\ res = [r \in Reqs |-> NoRes]
    /\ tokenCalls = [r \in Reqs |-> 0]
    /\ listCalls = [r \in Reqs |-> 0]
    /\ hist = [r \in Reqs |-> NoHist]
    /\ last = "none"
    /\ lockout = "no"

\* A request can take identity r when no handler runs under it and every
\* lower identity is taken by a running handler (requests are interchangeable:
\* the lowest free identity is used).
Free(r) == pc[r] \in {"idle", "done"}

CanStart(r) ==
    /\ Free(r)
    /\ \A q \in Reqs : q < r => ~Free(q)
    /\ r > 1 => overlap

\* The handler of request r has sent its response: its locals are gone.
EndOfHandler(r) ==
    /\ pc' = [pc EXCEPT ![r] = "done"]
    /\ token' = [token EXCEPT ![r] = null]
    /\ sentRT' = [sentRT EXCEPT ![r] = null]
    /\ page' = [page EXCEPT ![r] = 0]
    /\ allProducts' = [allProducts EXCEPT ![r] = <<>>]

\* ------------------------------------------- refresh variant: GET /ai-feed
\* The handler from its start to its first network call: getAccessToken's
\* cache test, refreshAccessToken's guard, and either the refresh call or,
\* on a cache hit, the listing call of page 1.
FeedStart(r) ==
    /\ mode = "refresh"
    /\ CanStart(r)
    /\ last' = IF last \in {"exchange_ok", "exchange_fail", "refresh_stale", "listing_fail"}
               THEN "feed_after_" \o last
               ELSE "other"
    /\ allProducts' = [allProducts EXCEPT ![r] = <<>>]
    /\ IF CacheValid(ACCESS_TOKEN, TOKEN_EXPIRY, now)
       THEN /\ token' = [token EXCEPT ![r] = ACCESS_TOKEN]
            /\ sentRT' = [sentRT EXCEPT ![r] = null]
            /\ page' = [page EXCEPT ![r] = 1]
            /\ tokenCalls' = [tokenCalls EXCEPT ![r] = 0]
            /\ listCalls' = [listCalls EXCEPT ![r] = 1]
            /\ res' = [res EXCEPT ![r] = NoRes]
            /\ pc' = [pc EXCEPT ![r] = "listing"]
       ELSE IF REFRESH_TOKEN = null
       THEN /\ token' = [token EXCEPT ![r] = null]
            /\ sentRT' = [sentRT EXCEPT ![r] = null]
            /\ page' = [page EXCEPT ![r] = 0]
            /\ tokenCalls' = [tokenCalls EXCEPT ![r] = 0]
            /\ listCalls' = [listCalls EXCEPT ![r] = 0]
            /\ res' = [res EXCEPT ![r] = ErrorPage(AuthRequiredMsg)]
            /\ pc' = [pc EXCEPT ![r] = "done"]
       ELSE /\ token' = [token EXCEPT ![r] = null]
            /\ sentRT' = [sentRT EXCEPT ![r] = REFRESH_TOKEN]
            /\ page' = [page EXCEPT ![r] = 0]
            /\ tokenCalls' = [tokenCalls EXCEPT ![r] = 1]
            /\ listCalls' = [listCalls EXCEPT ![r] = 0]
            /\ res' = [res EXCEPT ![r] = NoRes]
            /\ pc' = [pc EXCEPT ![r] = "refreshing"]
    /\ hist' = [hist EXCEPT ![r] = StartHist("feed")]
    /\ UNCHANGED <<env, tokenState, expiryFrom, clock, upstream, resp>>
    /\ UNCHANGED lockout

\* The token endpoint answers a refresh call.  It accepts a refresh token it
\* holds valid, and then either rotates it (a new refresh_token in the answer,
\* the old one no longer valid) or answers without a refresh_token; it rejects
\* a refresh token it does not hold valid, and may reject any call.
UpstreamRefresh(r) ==
    /\ pc[r] = "refreshing"
    /\ ~Pending(r)
    /\ \/ /\ sentRT[r] \in validRT
          /\ issued < MaxIssued
          /\ \E secs \in ExpiresInChoices, rotate \in BOOLEAN :
               /\ resp' = [resp EXCEPT ![r] = TokenResp(
                             TokenData(issued + 1, IF rotate THEN issued + 1 ELSE null, secs))]
               /\ validRT' = IF rotate THEN (validRT \ {sentRT[r]}) \cup {issued + 1}
                             ELSE validRT
          /\ issued' = issued + 1
       \/ /\ \E e \in ErrResponses :
               resp' = [resp EXCEPT ![r] = ErrResp(e, sentRT[r] \notin validRT)]
          /\ UNCHANGED upstream
    /\ UNCHANGED <<env, tokenState, expiryFrom, clock, pc, token, sentRT, page, allProducts, res,
                   tokenCalls, listCalls, hist, last>>
    /\ UNCHANGED lockout

\* The success path keeping the expiry held when it is the later one
RefreshOk_KeepsLaterExpiry(r) ==
    /\ pc[r] = "refreshing"
    /\ Pending(r)
    /\ Ok(resp[r])
    /\ ACCESS_TOKEN' = resp[r].tokenData.access_token
    /\ REFRESH_TOKEN' = RotatedRefreshToken(resp[r].tokenData, REFRESH_TOKEN)
    /\ TOKEN_EXPIRY' = IF ExpiryOf(now, resp[r].tokenData) > TOKEN_EXPIRY
                       THEN ExpiryOf(now, resp[r].tokenData) ELSE TOKEN_EXPIRY
    /\ expiryFrom' = IF ExpiryOf(now, resp[r].tokenData) > TOKEN_EXPIRY
                     THEN resp[r].tokenData.access_token ELSE expiryFrom
    /\ token' = [token EXCEPT ![r] = ACCESS_TOKEN']
    /\ page' = [page EXCEPT ![r] = 1]
    /\ listCalls' = [listCalls EXCEPT ![r] = 1]
    /\ resp' = [resp EXCEPT ![r] = NoResp]
    /\ pc' = [pc EXCEPT ![r] = "listing"]
    /\ last' = "other"
    /\ UNCHANGED <<env, clock, upstream, sentRT, allProducts, res, tokenCalls,
                   hist>>
    /\ lockout' = IF lockout = "rejected" THEN "overtaken" ELSE lockout

\* The refresh call answered 2xx: lines 67-72, the return to the handler,
\* and the listing call of page 1.
RefreshOk(r) ==
    /\ pc[r] = "refreshing"
    /\ Pending(r)
    /\ Ok(resp[r])
    /\ ACCESS_TOKEN' = resp[r].tokenData.access_token
    /\ REFRESH_TOKEN' = RotatedRefreshToken(resp[r].tokenData, REFRESH_TOKEN)
    /\ TOKEN_EXPIRY' = ExpiryOf(now, resp[r].tokenData)
    /\ expiryFrom' = resp[r].tokenData.access_token
    /\ token' = [token EXCEPT ![r] = ACCESS_TOKEN']
    /\ page' = [page EXCEPT ![r] = 1]
    /\ listCalls' = [listCalls EXCEPT ![r] = 1]
    /\ resp' = [resp EXCEPT ![r] = NoResp]
    /\ pc' = [pc EXCEPT ![r] = "listing"]
    /\ last' = "other"
    /\ UNCHANGED <<env, clock, upstream, sentRT, allProducts, res, tokenCalls,
                   hist>>
    /\ lockout' = IF lockout = "rejected" THEN "overtaken" ELSE lockout

\* The failure path clearing the tokens only while they are still the ones
\* the rejected call was made with
RefreshFail_KeepsNewerTokens(r) ==
    /\ pc[r] = "refreshing"
    /\ Pending(r)
    /\ ~Ok(resp[r])
    /\ ACCESS_TOKEN' = IF REFRESH_TOKEN = sentRT[r] THEN null ELSE ACCESS_TOKEN
    /\ REFRESH_TOKEN' = IF REFRESH_TOKEN = sentRT[r] THEN null ELSE REFRESH_TOKEN
    /\ res' = [res EXCEPT ![r] = ErrorPage(RefreshFailedMsg(resp[r].text))]
    /\ hist' = [hist EXCEPT ![r].upStatus = resp[r].status]
    /\ resp' = [resp EXCEPT ![r] = NoResp]
    /\ EndOfHandler(r)
    /\ last' = IF resp[r].stale THEN "refresh_stale" ELSE "other"
    /\ UNCHANGED <<env, TOKEN_EXPIRY, expiryFrom, clock, upstream, tokenCalls, listCalls>>
    /\ lockout' = "rejected"

\* The failure path without line 62: the access token is kept
RefreshFail_KeepsAccessToken(r) ==
    /\ pc[r] = "refreshing"
    /\ Pending(r)
    /\ ~Ok(resp[r])
    /\ REFRESH_TOKEN' = null
    /\ res' = [res EXCEPT ![r] = ErrorPage(RefreshFailedMsg(resp[r].text))]
    /\ hist' = [hist EXCEPT ![r].upStatus = resp[r].status]
    /\ resp' = [resp EXCEPT ![r] = NoResp]
    /\ EndOfHandler(r)
    /\ last' = IF resp[r].stale THEN "refresh_stale" ELSE "other"
    /\ UNCHANGED <<env, ACCESS_TOKEN, TOKEN_EXPIRY, expiryFrom, clock, upstream,
                   tokenCalls, listCalls>>
    /\ lockout' = "rejected"

\* The failure path without line 63: the refresh token is kept
RefreshFail_KeepsRefreshToken(r) ==
    /\ pc[r] = "refreshing"
    /\ Pending(r)
    /\ ~Ok(resp[r])
    /\ ACCESS_TOKEN' = null
    /\ res' = [res EXCEPT ![r] = ErrorPage(RefreshFailedMsg(resp[r].text))]
    /\ hist' = [hist EXCEPT ![r].upStatus = resp[r].status]
    /\ resp' = [resp EXCEPT ![r] = NoResp]
    /\ EndOfHandler(r)
    /\ last' = IF resp[r].stale THEN "refresh_stale" ELSE "other"
    /\ UNCHANGED <<env, REFRESH_TOKEN, TOKEN_EXPIRY, expiryFrom, clock, upstream, tokenCalls,
                   listCalls>>
    /\ lockout' = "rejected"

\* The refresh call answered non-2xx: lines 60-65, the rethrow of line 76 and
\* the catch block of the handler.
RefreshFail(r) ==
    /\ pc[r] = "refreshing"
    /\ Pending(r)
    /\ ~Ok(resp[r])
    /\ ACCESS_TOKEN' = null
    /\ REFRESH_TOKEN' = null
    /\ res' = [res EXCEPT ![r] = ErrorPage(RefreshFailedMsg(resp[r].text))]
    /\ hist' = [hist EXCEPT ![r].upStatus = resp[r].status]
    /\ resp' = [resp EXCEPT ![r] = NoResp]
    /\ EndOfHandler(r)
    /\ last' = IF resp[r].stale THEN "refresh_stale" ELSE "other"
    /\ UNCHANGED <<env, TOKEN_EXPIRY, expiryFrom, clock, upstream, tokenCalls, listCalls>>
    /\ lockout' = "rejected"

\* if (products.length === 0)
EmptyPage(products) == Len(products) = 0

\* The short-page test taking a full page as short
ShortPage_Inclusive(products) == Len(products) <= limit

\* if (products.length < limit)
ShortPage(products) == Len(products) < limit

\* The loop with a cap of 2 on the page count
ListingOk_Capped(r) ==
    /\ pc[r] = "listing"
    /\ page[r] <= PageBound
    /\ \E size \in PageSizes :
         LET products == ProductsOfPage(page[r], size)
         IN  /\ hist' = [hist EXCEPT ![r].sizes = Append(@, size)]
             /\ IF EmptyPage(products)
                THEN /\ pc' = [pc EXCEPT ![r] = "reading"]
                     /\ UNCHANGED <<allProducts, page, listCalls>>
                ELSE /\ allProducts' = [allProducts EXCEPT ![r] = @ \o products]
                     /\ IF ShortPage(products) \/ page[r] >= 2
                        THEN /\ pc' = [pc EXCEPT ![r] = "reading"]
                             /\ UNCHANGED <<page, listCalls>>
                        ELSE /\ page' = [page EXCEPT ![r] = @ + 1]
                             /\ listCalls' = [listCalls EXCEPT ![r] = @ + 1]
                             /\ UNCHANGED pc
    /\ last' = "other"
    /\ UNCHANGED <<env, tokenState, expiryFrom, clock, upstream, token, sentRT, resp, res,
                   tokenCalls>>
    /\ UNCHANGED lockout

\* The loop reading ACCESS_TOKEN again for each further listing call
ListingOk_RereadsToken(r) ==
    /\ pc[r] = "listing"
    /\ page[r] <= PageBound
    /\ \E size \in PageSizes :
         LET products == ProductsOfPage(page[r], size)
         IN  /\ hist' = [hist EXCEPT ![r].sizes = Append(@, size)]
             /\ IF EmptyPage(products)
                THEN /\ pc' = [pc EXCEPT ![r] = "reading"]
                     /\ UNCHANGED <<allProducts, page, listCalls>>
                ELSE /\ allProducts' = [allProducts EXCEPT ![r] = @ \o products]
                     /\ IF ShortPage(products)
                        THEN /\ pc' = [pc EXCEPT ![r] = "reading"]
                             /\ UNCHANGED <<page, listCalls>>
                        ELSE /\ page' = [page EXCEPT ![r] = @ + 1]
                             /\ listCalls' = [listCalls EXCEPT ![r] = @ + 1]
                             /\ UNCHANGED pc
    /\ token' = [token EXCEPT ![r] = IF pc'[r] = "listing" THEN ACCESS_TOKEN ELSE @]
    /\ last' = "other"
    /\ UNCHANGED <<env, tokenState, expiryFrom, clock, upstream, sentRT, resp, res,
                   tokenCalls>>
    /\ UNCHANGED lockout

\* A listing page answered 2xx with a page of some size: lines 184-197, then
\* either the next listing call or lines 200-220 up to the read of the template.
ListingOk(r) ==
    /\ pc[r] = "listing"
    /\ page[r] <= PageBound
    /\ \E size \in PageSizes :
         LET products == ProductsOfPage(page[r], size)
         IN  /\ hist' = [hist EXCEPT ![r].sizes = Append(@, size)]
             /\ IF EmptyPage(products)
                THEN /\ pc' = [pc EXCEPT ![r] = "reading"]
                     /\ UNCHANGED <<allProducts, page, listCalls>>
                ELSE /\ allProducts' = [allProducts EXCEPT ![r] = @ \o products]
                     /\ IF ShortPage(products)
                        THEN /\ pc' = [pc EXCEPT ![r] = "reading"]
                             /\ UNCHANGED <<page, listCalls>>
                        ELSE /\ page' = [page EXCEPT ![r] = @ + 1]
                             /\ listCalls' = [listCalls EXCEPT ![r] = @ + 1]
                             /\ UNCHANGED pc
    /\ last' = "other"
    /\ UNCHANGED <<env, tokenState, expiryFrom, clock, upstream, token, sentRT, resp, res,
                   tokenCalls>>
    /\ UNCHANGED lockout

\* The failure path dropping the cached token the product endpoint rejected
ListingFail_ClearsToken(r) ==
    /\ pc[r] = "listing"
    /\ page[r] <= PageBound
    /\ \E e \in ErrResponses :
         /\ res' = [res EXCEPT ![r] =
                      ErrorPage(ProductFailedMsg(ProductUrl(page[r]), ErrResp(e, FALSE)))]
         /\ hist' = [hist EXCEPT ![r].upStatus = e.status]
    /\ ACCESS_TOKEN' = null
    /\ EndOfHandler(r)
    /\ last' = "listing_fail"
    /\ UNCHANGED <<env, REFRESH_TOKEN, TOKEN_EXPIRY, expiryFrom, clock, upstream, resp, tokenCalls, listCalls>>
    /\ UNCHANGED lockout

\* A listing page answered non-2xx: lines 179-182 and the catch block.
ListingFail(r) ==
    /\ pc[r] = "listing"
    /\ page[r] <= PageBound
    /\ \E e \in ErrResponses :
         /\ res' = [res EXCEPT ![r] =
                      ErrorPage(ProductFailedMsg(ProductUrl(page[r]), ErrResp(e, FALSE)))]
         /\ hist' = [hist EXCEPT ![r].upStatus = e.status]
    /\ EndOfHandler(r)
    /\ last' = "listing_fail"
    /\ UNCHANGED <<env, tokenState, expiryFrom, clock, upstream, resp, tokenCalls, listCalls>>
    /\ UNCHANGED lockout

\* fs.readFile answered: lines 220-225, or the catch block when it failed.
TemplateRead(r) ==
    /\ pc[r] = "reading"
    /\ \/ \E template \in Templates :
            /\ res' = [res EXCEPT ![r] = FeedPage(allProducts[r], template)]
            /\ hist' = [hist EXCEPT ![r].template = template]
       \/ /\ res' = [res EXCEPT ![r] = ErrorPage(TemplateReadMsg)]
          /\ UNCHANGED hist
    /\ EndOfHandler(r)
    /\ last' = "other"
    /\ UNCHANGED <<env, tokenState, expiryFrom, clock, upstream, resp, tokenCalls,
                   listCalls>>
    /\ UNCHANGED lockout

\* ------------------------------------------------ refresh variant: GET /auth
Auth(r) ==
    /\ mode = "refresh"
    /\ CanStart(r)
    /\ res' = [res EXCEPT ![r] = Redirect("authUrl")]
    /\ EndOfHandler(r)
    /\ tokenCalls' = [tokenCalls EXCEPT ![r] = 0]
    /\ listCalls' = [listCalls EXCEPT ![r] = 0]
    /\ last' = "other"
    /\ hist' = [hist EXCEPT ![r] = StartHist("auth")]
    /\ UNCHANGED <<env, tokenState, expiryFrom, clock, upstream, resp>>
    /\ UNCHANGED lockout

\* --------------------------------------------------- refresh variant: GET /
\* Without a code: res.redirect('/ai-feed').  With a code: the exchange call.
Root(r) ==
    /\ mode = "refresh"
    /\ CanStart(r)
    /\ \E code \in BOOLEAN :
         IF ~code
         THEN /\ res' = [res EXCEPT ![r] = Redirect("/ai-feed")]
              /\ pc' = [pc EXCEPT ![r] = "done"]
              /\ tokenCalls' = [tokenCalls EXCEPT ![r] = 0]
              /\ hist' = [hist EXCEPT ![r] = StartHist("root")]
         ELSE /\ res' = [res EXCEPT ![r] = NoRes]
              /\ pc' = [pc EXCEPT ![r] = "exchanging"]
              /\ tokenCalls' = [tokenCalls EXCEPT ![r] = 1]
              /\ hist' = [hist EXCEPT ![r] = StartHist("callback")]
    /\ token' = [token EXCEPT ![r] = null]
    /\ sentRT' = [sentRT EXCEPT ![r] = null]
    /\ page' = [page EXCEPT ![r] = 0]
    /\ allProducts' = [allProducts EXCEPT ![r] = <<>>]
    /\ listCalls' = [listCalls EXCEPT ![r] = 0]
    /\ last' = "other"
    /\ UNCHANGED <<env, tokenState, expiryFrom, clock, upstream, resp>>
    /\ UNCHANGED lockout

\* The token endpoint answers an exchange call: a token pair (the answer
\* carries a refresh_token or not), or a non-2xx answer.
UpstreamExchange(r) ==
    /\ pc[r] = "exchanging"
    /\ ~Pending(r)
    /\ \/ /\ issued < MaxIssued
          /\ \E secs \in ExpiresInChoices, hasRT \in BOOLEAN :
               /\ resp' = [resp EXCEPT ![r] = TokenResp(
                             TokenData(issued + 1, IF hasRT THEN issued + 1 ELSE null, secs))]
               /\ validRT' = IF hasRT THEN validRT \cup {issued + 1} ELSE validRT
          /\ issued' = issued + 1
       \/ /\ \E e \in ErrResponses : resp' = [resp EXCEPT ![r] = ErrResp(e, FALSE)]
          /\ UNCHANGED upstream
    /\ UNCHANGED <<env, tokenState, expiryFrom, clock, pc, token, sentRT, page, allProducts, res,
                   tokenCalls, listCalls, hist, last>>
    /\ UNCHANGED lockout

\* The success path without line 140: the expiry is not stored
ExchangeOk_NoExpiry(r) ==
    /\ pc[r] = "exchanging"
    /\ Pending(r)
    /\ Ok(resp[r])
    /\ ACCESS_TOKEN' = resp[r].tokenData.access_token
    /\ REFRESH_TOKEN' = resp[r].tokenData.refresh_token
    /\ res' = [res EXCEPT ![r] = Redirect("/ai-feed")]
    /\ resp' = [resp EXCEPT ![r] = NoResp]
    /\ EndOfHandler(r)
    /\ last' = "exchange_ok"
    /\ UNCHANGED <<env, TOKEN_EXPIRY, expiryFrom, clock, upstream, tokenCalls, listCalls, hist>>
    /\ lockout' = IF lockout = "no" THEN "no" ELSE "recovered"

\* The exchange call answered 2xx: lines 137-144.
ExchangeOk(r) ==
    /\ pc[r] = "exchanging"
    /\ Pending(r)
    /\ Ok(resp[r])
    /\ ACCESS_TOKEN' = resp[r].tokenData.access_token
    /\ REFRESH_TOKEN' = resp[r].tokenData.refresh_token
    /\ TOKEN_EXPIRY' = ExpiryOf(now, resp[r].tokenData)
    /\ expiryFrom' = resp[r].tokenData.access_token
    /\ res' = [res EXCEPT ![r] = Redirect("/ai-feed")]
    /\ resp' = [resp EXCEPT ![r] = NoResp]
    /\ EndOfHandler(r)
    /\ last' = "exchange_ok"
    /\ UNCHANGED <<env, clock, upstream, tokenCalls, listCalls, hist>>
    /\ lockout' = IF lockout = "no" THEN "no" ELSE "recovered"

\* The failure path clearing the tokens as the refresh failure does
ExchangeFail_ClearsTokens(r) ==
    /\ pc[r] = "exchanging"
    /\ Pending(r)
    /\ ~Ok(resp[r])
    /\ ACCESS_TOKEN' = null
    /\ REFRESH_TOKEN' = null
    /\ res' = [res EXCEPT ![r] = AuthFailedPage(ExchangeFailedMsg(resp[r].text))]
    /\ hist' = [hist EXCEPT ![r].upStatus = resp[r].status]
    /\ resp' = [resp EXCEPT ![r] = NoResp]
    /\ EndOfHandler(r)
    /\ last' = "exchange_fail"
    /\ UNCHANGED <<env, TOKEN_EXPIRY, expiryFrom, clock, upstream, tokenCalls,
                   listCalls, lockout>>

\* The exchange call answered non-2xx: lines 132-135 and 146-149.
ExchangeFail(r) ==
    /\ pc[r] = "exchanging"
    /\ Pending(r)
    /\ ~Ok(resp[r])
    /\ res' = [res EXCEPT ![r] = AuthFailedPage(ExchangeFailedMsg(resp[r].text))]
    /\ hist' = [hist EXCEPT ![r].upStatus = resp[r].status]
    /\ resp' = [resp EXCEPT ![r] = NoResp]
    /\ EndOfHandler(r)
    /\ last' = "exchange_fail"
    /\ UNCHANGED <<env, tokenState, expiryFrom, clock, upstream, tokenCalls, listCalls>>
    /\ UNCHANGED lockout

\* --------------------------------- client-credentials variant: GET /ai-feed
\* The handler from its start to its first network call: the cache test of
\* getAccessToken, then the grant call or, on a cache hit, the listing call.
CcFeedStart(r) ==
    /\ mode = "client_credentials"
    /\ CanStart(r)
    /\ IF CacheValid(ACCESS_TOKEN, TOKEN_EXPIRY, now)
       THEN /\ token' = [token EXCEPT ![r] = ACCESS_TOKEN]
            /\ tokenCalls' = [tokenCalls EXCEPT ![r] = 0]
            /\ listCalls' = [listCalls EXCEPT ![r] = 1]
            /\ pc' = [pc EXCEPT ![r] = "cclisting"]
       ELSE /\ token' = [token EXCEPT ![r] = null]
            /\ tokenCalls' = [tokenCalls EXCEPT ![r] = 1]
            /\ listCalls' = [listCalls EXCEPT ![r] = 0]
            /\ pc' = [pc EXCEPT ![r] = "granting"]
    /\ res' = [res EXCEPT ![r] = NoRes]
    /\ sentRT' = [sentRT EXCEPT ![r] = null]
    /\ page' = [page EXCEPT ![r] = 0]
    /\ allProducts' = [allProducts EXCEPT ![r] = <<>>]
    /\ last' = "other"
    /\ hist' = [hist EXCEPT ![r] = StartHist("feed")]
    /\ UNCHANGED <<env, tokenState, expiryFrom, clock, upstream, resp>>
    /\ UNCHANGED lockout

\* The token endpoint answers a client-credentials grant call.
UpstreamGrant(r) ==
    /\ pc[r] = "granting"
    /\ ~Pending(r)
    /\ \/ /\ issued < MaxIssued
          /\ \E secs \in ExpiresInChoices :
               resp' = [resp EXCEPT ![r] = TokenResp(TokenData(issued + 1, null, secs))]
          /\ issued' = issued + 1
          /\ UNCHANGED validRT
       \/ /\ \E e \in ErrResponses : resp' = [resp EXCEPT ![r] = ErrResp(e, FALSE)]
          /\ UNCHANGED upstream
    /\ UNCHANGED <<env, tokenState, expiryFrom, clock, pc, token, sentRT, page, allProducts, res,
                   tokenCalls, listCalls, hist, last>>
    /\ UNCHANGED lockout

\* The success path keeping a token another call stored meanwhile (first
\* writer wins) and returning the cached one
GrantOk_FirstWriterWins(r) ==
    /\ pc[r] = "granting"
    /\ Pending(r)
    /\ Ok(resp[r])
    /\ ACCESS_TOKEN' = IF ACCESS_TOKEN # null THEN ACCESS_TOKEN
                       ELSE resp[r].tokenData.access_token
    /\ TOKEN_EXPIRY' = IF ACCESS_TOKEN # null THEN TOKEN_EXPIRY
                       ELSE ExpiryOf(now, resp[r].tokenData)
    /\ expiryFrom' = IF ACCESS_TOKEN # null THEN expiryFrom
                     ELSE resp[r].tokenData.access_token
    /\ token' = [token EXCEPT ![r] = ACCESS_TOKEN']
    /\ listCalls' = [listCalls EXCEPT ![r] = 1]
    /\ resp' = [resp EXCEPT ![r] = NoResp]
    /\ pc' = [pc EXCEPT ![r] = "cclisting"]
    /\ last' = "other"
    /\ UNCHANGED <<env, REFRESH_TOKEN, clock, upstream, sentRT, page, allProducts,
                   res, tokenCalls, hist>>
    /\ UNCHANGED lockout

\* The grant call answered 2xx: lines 314-321, then the listing call.
GrantOk(r) ==
    /\ pc[r] = "granting"
    /\ Pending(r)
    /\ Ok(resp[r])
    /\ ACCESS_TOKEN' = resp[r].tokenData.access_token
    /\ TOKEN_EXPIRY' = ExpiryOf(now, resp[r].tokenData)
    /\ expiryFrom' = resp[r].tokenData.access_token
    /\ token' = [token EXCEPT ![r] = ACCESS_TOKEN']
    /\ listCalls' = [listCalls EXCEPT ![r] = 1]
    /\ resp' = [resp EXCEPT ![r] = NoResp]
    /\ pc' = [pc EXCEPT ![r] = "cclisting"]
    /\ last' = "other"
    /\ UNCHANGED <<env, REFRESH_TOKEN, clock, upstream, sentRT, page, allProducts,
                   res, tokenCalls, hist>>
    /\ UNCHANGED lockout

\* The grant call answered non-2xx: lines 309-312 throw (response.json()
\* rejects instead when the body is no JSON), lines 323-327 clear the token
\* and throw the fixed message, and the catch block of the handler answers.
GrantFail(r) ==
    /\ pc[r] = "granting"
    /\ Pending(r)
    /\ ~Ok(resp[r])
    /\ ACCESS_TOKEN' = null
    /\ res' = [res EXCEPT ![r] = CcErrorPage(GrantFailedMsg)]
    /\ hist' = [hist EXCEPT ![r].upStatus = resp[r].status]
    /\ resp' = [resp EXCEPT ![r] = NoResp]
    /\ EndOfHandler(r)
    /\ last' = "other"
    /\ UNCHANGED <<env, REFRESH_TOKEN, TOKEN_EXPIRY, expiryFrom, clock, upstream, tokenCalls,
                   listCalls>>
    /\ UNCHANGED lockout

\* The single listing call answered 2xx: lines 356-381.  The variant never
\* imports fs, so line 381 throws a ReferenceError and the catch block answers.
CcListingOk(r) ==
    /\ pc[r] = "cclisting"
    /\ \E size \in PageSizes :
         LET jsonLdData == JsonLdData(ProductsOfPage(1, size))
         IN  /\ res' = [res EXCEPT ![r] = CcErrorPage(FsUndefinedMsg)]
             /\ hist' = [hist EXCEPT ![r].sizes = <<size>>]
    /\ EndOfHandler(r)
    /\ last' = "other"
    /\ UNCHANGED <<env, tokenState, expiryFrom, clock, upstream, resp, tokenCalls, listCalls>>
    /\ UNCHANGED lockout

\* The single listing call answered non-2xx: lines 351-354 and the catch block.
CcListingFail(r) ==
    /\ pc[r] = "cclisting"
    /\ \E e \in ErrResponses :
         /\ res' = [res EXCEPT ![r] =
                      CcErrorPage(ProductFailedMsg(CcProductUrl, ErrResp(e, FALSE)))]
         /\ hist' = [hist EXCEPT ![r].upStatus = e.status]
    /\ EndOfHandler(r)
    /\ last' = "other"
    /\ UNCHANGED <<env, tokenState, expiryFrom, clock, upstream, resp, tokenCalls, listCalls>>
    /\ UNCHANGED lockout

\* --------------------------------------------------------------------- clock
Tick ==
    /\ ticks < MaxTicks
    /\ \E secs \in TickSecs : now' = now + secs * 1000
    /\ ticks' = ticks + 1
    /\ UNCHANGED <<env, tokenState, expiryFrom, upstream, pc, token, sentRT, page, allProducts,
                   resp, res, tokenCalls, listCalls, hist, last>>
    /\ UNCHANGED lockout

Next ==
    \/ \E r \in Reqs : FeedStart(r)
    \/ \E r \in Reqs : UpstreamRefresh(r)
    \/ \E r \in Reqs : RefreshOk(r)
    \/ \E r \in Reqs : RefreshFail(r)
    \/ \E r \in Reqs : ListingOk(r)
    \/ \E r \in Reqs : ListingFail(r)
    \/ \E r \in Reqs : TemplateRead(r)
    \/ \E r \in Reqs : Auth(r)
    \/ \E r \in Reqs : Root(r)
    \/ \E r \in Reqs : UpstreamExchange(r)
    \/ \E r \in Reqs : ExchangeOk(r)
    \/ \E r \in Reqs : ExchangeFail(r)
    \/ \E r \in Reqs : CcFeedStart(r)
    \/ \E r \in Reqs : UpstreamGrant(r)
    \/ \E r \in Reqs : GrantOk(r)
    \/ \E r \in Reqs : GrantFail(r)
    \/ \E r \in Reqs : CcListingOk(r)
    \/ \E r \in Reqs : CcListingFail(r)
    \/ Tick

Spec == Init /\ [][Next]_vars

\* The token endpoint answering an exchange call with a token pair always:
\* every 2xx answer to an exchange carries a refresh_token.
UpstreamExchangePair(r) ==
    /\ UpstreamExchange(r)
    /\ Ok(resp'[r]) => resp'[r].tokenData.refresh_token # null

NextPair ==
    \/ \E r \in Reqs : FeedStart(r)
    \/ \E r \in Reqs : UpstreamRefresh(r)
    \/ \E r \in Reqs : RefreshOk(r)
    \/ \E r \in Reqs : RefreshFail(r)
    \/ \E r \in Reqs : ListingOk(r)
    \/ \E r \in Reqs : ListingFail(r)
    \/ \E r \in Reqs : TemplateRead(r)
    \/ \E r \in Reqs : Auth(r)
    \/ \E r \in Reqs : Root(r)
    \/ \E r \in Reqs : UpstreamExchangePair(r)
    \/ \E r \in Reqs : ExchangeOk(r)
    \/ \E r \in Reqs : ExchangeFail(r)
    \/ \E r \in Reqs : CcFeedStart(r)
    \/ \E r \in Reqs : UpstreamGrant(r)
    \/ \E r \in Reqs : GrantOk(r)
    \/ \E r \in Reqs : GrantFail(r)
    \/ \E r \in Reqs : CcListingOk(r)
    \/ \E r \in Reqs : CcListingFail(r)
    \/ Tick

\* The program with a token endpoint of that kind
SpecPair == Init /\ [][NextPair]_vars

\* fs.readFile settles: a handler waiting for the template goes on.
FairSpec == Spec /\ \A r \in Reqs : WF_vars(TemplateRead(r))

\* ==================================================================== claims
\* Request r starts its /ai-feed handler in this step: getAccessToken is called.
FeedStarted(r) ==
    /\ Free(r)
    /\ hist'[r].route = "feed"
    /\ <<pc[r], res[r], hist[r], tokenCalls[r], listCalls[r]>>'
         # <<pc[r], res[r], hist[r], tokenCalls[r], listCalls[r]>>

\* The handler of request r reads the answer of the token endpoint in this step.
Delivered(r) == Pending(r) /\ ~Pending(r)'

\* A token is cached and the clock is strictly more than 5 minutes before its expiry.
FreshToken == ACCESS_TOKEN # null /\ TOKEN_EXPIRY - now > 300000

\* A token is cached whose expiry is 5 minutes or less away, or past.
StaleToken == ACCESS_TOKEN # null /\ TOKEN_EXPIRY - now <= 300000

\* getAccessToken of request r returns the cached token without a call.
CacheHit(r) ==
    /\ token'[r] = ACCESS_TOKEN
    /\ tokenCalls'[r] = 0
    /\ pc'[r] \in {"listing", "cclisting"}
    /\ ~Pending(r)'
    /\ tokenState' = tokenState

\* C1 -- Cache hit: a getAccessToken call made while a token is cached and the
\* clock is strictly more than 5 minutes (300000 ms) before TOKEN_EXPIRY returns
\* the cached token, sends nothing to the token endpoint and leaves ACCESS_TOKEN,
\* REFRESH_TOKEN and TOKEN_EXPIRY unchanged, in both variants.
C1_CacheHit ==
    [][\A r \in Reqs : (FeedStarted(r) /\ FreshToken) => CacheHit(r)]_vars

\* A request was served from the cache and is at its first listing call.
C1_Witness ==
    \E r \in Reqs :
        /\ pc[r] = "listing"
        /\ hist[r].route = "feed"
        /\ tokenCalls[r] = 0
        /\ token[r] = ACCESS_TOKEN
        /\ ACCESS_TOKEN # null
        /\ TOKEN_EXPIRY - now > 300000

\* The renewal call of request r is out, and it is the only one.
OneRenewalCall(r) ==
    /\ tokenCalls'[r] = 1
    /\ pc'[r] \in {"refreshing", "granting"}
    /\ mode = "refresh" => sentRT'[r] = REFRESH_TOKEN

\* While getAccessToken of request r waits for the token endpoint and when it
\* returns, the call count of the request stays at one.
NoSecondTokenCall(r) ==
    pc[r] \in {"refreshing", "granting"} => tokenCalls[r] = 1 /\ tokenCalls'[r] = 1

\* C2 as stated -- every getAccessToken call made while a token is cached whose
\* expiry is 5 minutes or less away (or past) sends exactly one renewal call, in
\* every reachable token state.
C2_Original ==
    [][\A r \in Reqs :
          /\ (FeedStarted(r) /\ StaleToken) => OneRenewalCall(r)
          /\ NoSecondTokenCall(r)]_vars

\* C2 amended -- the same, for the states in which a renewal is possible: in the
\* client-credentials variant always, in the refresh variant when a refresh
\* token is held.  (Without one, refreshAccessToken throws before any call.)
C2_RenewalOnExpiry ==
    [][\A r \in Reqs :
          /\ (FeedStarted(r) /\ StaleToken /\ (mode = "refresh" => REFRESH_TOKEN # null))
               => OneRenewalCall(r)
          /\ NoSecondTokenCall(r)]_vars

\* A request found the cached token exactly 5 minutes before its expiry and
\* has its one refresh call out.
C2_Witness ==
    \E r \in Reqs :
        /\ pc[r] = "refreshing"
        /\ tokenCalls[r] = 1
        /\ ACCESS_TOKEN # null
        /\ TOKEN_EXPIRY - now = 300000

\* The concatenation of the pages 1..k of the catalogue, of the given sizes
RECURSIVE PagesUpTo(_, _)
PagesUpTo(sizes, k) ==
    IF k = 0 THEN <<>> ELSE PagesUpTo(sizes, k - 1) \o ProductsOfPage(k, sizes[k])

\* C3 -- Pagination result: with every listing answer 2xx, the fetch loop asks
\* for the pages 1, 2, 3, ... one at a time, stops right after the first page
\* of fewer than 100 records (an empty one included), has then sent k listing
\* calls, k the number of that page, and holds the concatenation of the pages
\* 1..k in order.
C3_Pagination ==
    \A r \in Reqs :
        (mode = "refresh" /\ pc[r] \in {"listing", "reading"}) =>
            LET sizes == hist[r].sizes
                k == Len(sizes)
            IN  /\ \A i \in 1..(k - 1) : sizes[i] = 100
                /\ allProducts[r] = PagesUpTo(sizes, k)
                /\ pc[r] = "listing" =>
                     /\ \A i \in 1..k : sizes[i] = 100
                     /\ page[r] = k + 1
                     /\ listCalls[r] = k + 1
                /\ pc[r] = "reading" =>
                     /\ k >= 1
                     /\ sizes[k] < 100
                     /\ page[r] = k
                     /\ listCalls[r] = k

\* The loop has ended on the page sizes 100, 100, 37: 3 calls, 237 records.
C3_Witness ==
    \E r \in Reqs :
        /\ pc[r] = "reading"
        /\ hist[r].sizes = <<100, 100, 37>>
        /\ listCalls[r] = 3
        /\ Len(allProducts[r]) = 237

\* The handler of request r reads a non-2xx answer to its renewal call.
RenewalRejected(r) ==
    /\ pc[r] \in {"refreshing", "granting"}
    /\ Delivered(r)
    /\ resp[r].status \notin 200..299

\* C4 -- Renewal failure clears the cache: when the token endpoint answers the
\* renewal call of getAccessToken non-2xx, the cached access token is cleared
\* (in the refresh variant the refresh token too), the request is answered with
\* the failure at once, and no second call goes to the token endpoint.
C4_RenewalFailureClears ==
    [][\A r \in Reqs :
          RenewalRejected(r) =>
              /\ ACCESS_TOKEN' = null
              /\ mode = "refresh" => REFRESH_TOKEN' = null
              /\ pc'[r] = "done"
              /\ res'[r].status = 500
              /\ res'[r].kind = "error"
              /\ tokenCalls'[r] = 1
              /\ listCalls'[r] = 0]_vars

\* A refresh call was rejected and the request answered; both tokens are empty.
C4_Witness ==
    \E r \in Reqs :
        /\ mode = "refresh"
        /\ pc[r] = "done"
        /\ hist[r].route = "feed"
        /\ hist[r].upStatus # 0
        /\ tokenCalls[r] = 1
        /\ res[r].status = 500
        /\ ACCESS_TOKEN = null
        /\ REFRESH_TOKEN = null

\* C5 -- Renewal failure is reported with the upstream status: when a refresh,
\* grant or exchange call is rejected non-2xx, the error page sent carries the
\* upstream status code and the upstream body.
C5_Original ==
    \A r \in Reqs :
        (pc[r] = "done" /\ tokenCalls[r] = 1 /\ listCalls[r] = 0
           /\ hist[r].upStatus # 0) =>
            /\ res[r].status = 500
            /\ Str(hist[r].upStatus) \in Range(res[r].message)
            /\ \E e \in ErrResponses :
                 e.status = hist[r].upStatus /\ e.text \in Range(res[r].message)

\* The handler of request r reads a 2xx answer to its refresh call.
RefreshAccepted(r) ==
    /\ pc[r] = "refreshing"
    /\ Delivered(r)
    /\ resp[r].status \in 200..299

\* What C6 says of the access token, the expiry and the value returned
RefreshStores(r) ==
    /\ ACCESS_TOKEN' = resp[r].tokenData.access_token
    /\ TOKEN_EXPIRY' = now + resp[r].tokenData.expires_in * 1000
    /\ token'[r] = resp[r].tokenData.access_token

C7_AuthRequired ==
    [][\A r \in Reqs :
          (FeedStarted(r) /\ mode = "refresh" /\ ~FreshToken /\ REFRESH_TOKEN = null) =>
              /\ tokenCalls'[r] = 0
              /\ listCalls'[r] = 0
              /\ tokenState' = tokenState
              /\ pc'[r] = "done"
              /\ res'[r].status = 500
              /\ res'[r].kind = "error"
              /\ res'[r].message = AuthRequiredMsg
              /\ res'[r].authLink]_vars

\* A request was answered with the authorization-required page.
C7_Witness ==
    \E r \in Reqs :
        /\ pc[r] = "done"
        /\ hist[r].route = "feed"
        /\ res[r].status = 500
        /\ res[r].message = AuthRequiredMsg
        /\ tokenCalls[r] = 0
        /\ listCalls[r] = 0

\* The handler of request r reads a 2xx answer to its exchange call.
ExchangeAccepted(r) ==
    /\ pc[r] = "exchanging"
    /\ Delivered(r)
    /\ resp[r].status \in 200..299

\* C8 -- Authorization callback success: GET / with a code sends exactly one
\* exchange call; on a 2xx answer it stores the access token, the refresh token
\* and the computed expiry of the answer and redirects to /ai-feed; the
\* /ai-feed request that follows, nothing in between and the clock before the
\* expiry margin, is served from the cache.
C8_CallbackSuccess ==
    [][\A r \in Reqs :
          /\ pc[r] = "exchanging" => tokenCalls[r] = 1 /\ tokenCalls'[r] = 1
          /\ ExchangeAccepted(r) =>
               /\ ACCESS_TOKEN' = resp[r].tokenData.access_token
               /\ REFRESH_TOKEN' = resp[r].tokenData.refresh_token
               /\ TOKEN_EXPIRY' = now + resp[r].tokenData.expires_in * 1000
               /\ pc'[r] = "done"
               /\ res'[r].status = 302
               /\ res'[r].location = "/ai-feed"
          /\ (FeedStarted(r) /\ last = "exchange_ok" /\ now < TOKEN_EXPIRY - 300000) =>
               CacheHit(r)]_vars

\* The /ai-feed request that followed a successful exchange was served from
\* the cache.
C8_Witness ==
    /\ last = "feed_after_exchange_ok"
    /\ \E r \in Reqs :
         /\ pc[r] = "listing"
         /\ tokenCalls[r] = 0
         /\ token[r] = ACCESS_TOKEN
         /\ token[r] # null

\* C9 -- Listing failure: when a listing page is answered non-2xx, the /ai-feed
\* request sends no further listing call, answers 500 with a body that contains
\* the upstream status code, and delivers none of the products of the pages
\* before.
C9_Original ==
    \A r \in Reqs :
        (mode = "refresh" /\ pc[r] = "done" /\ hist[r].route = "feed"
           /\ listCalls[r] >= 1 /\ hist[r].upStatus # 0) =>
            /\ listCalls[r] = Len(hist[r].sizes) + 1
            /\ res[r].status = 500
            /\ res[r].html = <<>>
            /\ res[r].skus = <<>>
            /\ Str(hist[r].upStatus) \in Range(res[r].message)

\* C10 -- Refresh-mode race hazard: a request that finds the cached token
\* expired sends its own refresh call with the refresh token held, also while
\* another request's refresh call with that token is out; a refresh call whose
\* token the upstream has rotated away meanwhile is rejected and clears
\* ACCESS_TOKEN and REFRESH_TOKEN, whatever they hold by then; and the request
\* that follows fails with the authorization-required error.
C10_RaceHazard ==
    [][\A r \in Reqs :
          /\ (FeedStarted(r) /\ mode = "refresh" /\ ~FreshToken /\ REFRESH_TOKEN # null) =>
               /\ pc'[r] = "refreshing"
               /\ sentRT'[r] = REFRESH_TOKEN
               /\ \A q \in Reqs :
                    (pc[q] = "refreshing" /\ sentRT[q] = REFRESH_TOKEN) =>
                        pc'[q] = "refreshing" /\ sentRT'[q] = sentRT'[r]
          /\ (pc[r] = "refreshing" /\ Delivered(r) /\ resp[r].stale) =>
               /\ resp[r].status \notin 200..299
               /\ ACCESS_TOKEN' = null
               /\ REFRESH_TOKEN' = null
          /\ (FeedStarted(r) /\ last = "refresh_stale") =>
               /\ pc'[r] = "done"
               /\ res'[r].status = 500
               /\ res'[r].message = AuthRequiredMsg]_vars

\* Two refresh calls overlapped; the first stored fresh tokens and its request
\* is fetching with them; the second was rejected for its rotated token and
\* cleared both; the request after it failed with the authorization-required
\* error, while the upstream still holds a valid refresh token.
C10_Witness ==
    /\ last = "feed_after_refresh_stale"
    /\ ACCESS_TOKEN = null
    /\ REFRESH_TOKEN = null
    /\ validRT # {}
    /\ \E q, r \in Reqs :
         /\ q # r
         /\ pc[q] = "listing"
         /\ tokenCalls[q] = 1
         /\ token[q] # null
         /\ pc[r] = "done"
         /\ res[r].message = AuthRequiredMsg

\* The handler of request r reads a 2xx answer to its grant call.
GrantAccepted(r) ==
    /\ mode = "client_credentials"
    /\ pc[r] = "granting"
    /\ Delivered(r)
    /\ resp[r].status \in 200..299

\* Every request made a grant call, every one was answered 2xx, and every
\* getAccessToken call has returned.
AllGrantsDone ==
    /\ mode = "client_credentials"
    /\ \A r \in Reqs : pc[r] = "cclisting" /\ tokenCalls[r] = 1

\* C11 -- Client-credentials race is benign: whatever the other requests are
\* doing, a getAccessToken call whose grant is answered 2xx returns the access
\* token of that answer, stores it with its expiry, and its request goes on to
\* the listing call; and once the overlapping calls have all returned, the
\* cache holds the access token of one of their grants together with the
\* expiry of the same grant.
C11_CcRaceBenign ==
    /\ [][\A r \in Reqs :
            GrantAccepted(r) =>
                /\ token'[r] = resp[r].tokenData.access_token
                /\ token'[r] # null
                /\ ACCESS_TOKEN' = token'[r]
                /\ TOKEN_EXPIRY' = now + resp[r].tokenData.expires_in * 1000
                /\ pc'[r] = "cclisting"
                /\ listCalls'[r] = 1
                /\ res'[r] = NoRes]_vars
    /\ [](AllGrantsDone =>
            /\ \A r \in Reqs : token[r] \in 1..issued
            /\ \E r \in Reqs : ACCESS_TOKEN = token[r]
            /\ expiryFrom = ACCESS_TOKEN)

\* Two overlapping requests both had their grant answered 2xx, each holds the
\* token of its own grant, and the cache holds the one written last, here the
\* one issued first.
C11_Witness ==
    /\ AllGrantsDone
    /\ token[1] # token[2]
    /\ \E r \in Reqs : ACCESS_TOKEN = token[r] /\ \A q \in Reqs : token[q] >= token[r]

\* The handler of request r renders and sends the feed page in this step.
FeedRendered(r) ==
    /\ mode = "refresh"
    /\ pc[r] = "reading"
    /\ pc'[r] = "done"
    /\ res'[r].status = 200

\* C12 -- JSON-LD mapping: the array rendered from the accumulated product
\* list has the length and the order of the list; each entry's availability is
\* "https://schema.org/InStock" exactly when the product's stock_quantity is
\* above 0 and "https://schema.org/OutOfStock" otherwise, a quantity of 0 and
\* an absent quantity included; its image is the detail image when the product
\* has one and the listing image otherwise.
C12_JsonLdMapping ==
    [][\A r \in Reqs :
          FeedRendered(r) =>
              LET products == [i \in 1..Len(allProducts[r]) |-> Product(allProducts[r][i])]
                  jsonLdData == JsonLdData(allProducts[r])
              IN  /\ Len(jsonLdData) = Len(products)
                  /\ ScriptOpen \in Range(res'[r].html) =>
                       res'[r].skus = [i \in 1..Len(products) |-> products[i].product_no]
                  /\ \A i \in 1..Len(products) :
                       /\ jsonLdData[i].sku = products[i].product_no
                       /\ jsonLdData[i].offers.availability =
                            (IF \E q \in 1..5 : products[i].stock_quantity = <<q>>
                             THEN "https://schema.org/InStock"
                             ELSE "https://schema.org/OutOfStock")
                       /\ products[i].detail_image # "" =>
                            jsonLdData[i].image = products[i].detail_image
                       /\ products[i].detail_image = "" =>
                            jsonLdData[i].image = products[i].list_image]_vars

\* A feed page was sent whose products cover a quantity above 0, a quantity
\* of 0 and an absent quantity, each with and without a detail image.
C12_Witness ==
    \E r \in Reqs :
        /\ pc[r] = "done"
        /\ res[r].status = 200
        /\ res[r].kind = "feed"
        /\ Len(res[r].skus) >= 6
        /\ \A a \in 0..2, b \in 0..1 :
             \E i \in 1..Len(res[r].skus) :
                 res[r].skus[i] % 3 = a /\ res[r].skus[i] % 2 = b

\* The template with the given text put right before its first </head>, the
\* template itself when it has no </head>
Spliced(template, text) ==
    LET i == IndexOf(template, "</head>")
    IN  IF i = 0 THEN template
        ELSE SubSeq(template, 1, i - 1) \o text \o <<"\n", "</head>">>
                 \o SubSeq(template, i + 1, Len(template))

\* C13 -- Template injection: for every template and every product list, the
\* page sent is the template with the JSON-LD script tag put right before the
\* first </head> and nothing else changed; a template without </head> is sent
\* unchanged.
C13_Original ==
    [][\A r \in Reqs :
          FeedRendered(r) =>
              res'[r].html =
                  Spliced(hist'[r].template, JsonLdScript(JsonLdData(allProducts[r])))]_vars

\* The outcome of C7 for the handler that starts in this step
FailsAuthRequired(r) ==
    /\ tokenCalls'[r] = 0
    /\ listCalls'[r] = 0
    /\ pc'[r] = "done"
    /\ res'[r].status = 500
    /\ res'[r].message = AuthRequiredMsg

\* The first getAccessToken call after a successful exchange, nothing in
\* between and the clock before the expiry margin, returns the exchanged token.
RecoversAfterExchange(r) ==
    (FeedStarted(r) /\ last = "exchange_ok" /\ now < TOKEN_EXPIRY - 300000) =>
        /\ tokenCalls'[r] = 0
        /\ token'[r] = ACCESS_TOKEN
        /\ token'[r] # null
        /\ pc'[r] = "listing"

\* C14 as stated -- Lock-out and recovery: in the refresh variant, once a
\* refresh call has been rejected, every later getAccessToken call fails with
\* the authorization-required error without a call to the token endpoint, until
\* a callback completes a successful exchange; the first getAccessToken call
\* after that exchange returns the exchanged access token.
C14_Original ==
    [][\A r \in Reqs :
          /\ (FeedStarted(r) /\ mode = "refresh" /\ lockout \in {"rejected", "overtaken"}) =>
               FailsAuthRequired(r)
          /\ RecoversAfterExchange(r)]_vars

\* C14 -- Lock-out and recovery: in the refresh variant, a rejected refresh
\* call leaves both tokens cleared; from then on, as long as no refresh call
\* that was in flight at the rejection is read with a 2xx answer, the tokens
\* stay cleared and every getAccessToken call fails with the
\* authorization-required error without a call to the token endpoint, until a
\* callback completes a successful exchange; the first getAccessToken call
\* after that exchange, nothing in between, returns the exchanged access token.
C14_LockOutAndRecovery ==
    /\ [](lockout = "rejected" => ACCESS_TOKEN = null /\ REFRESH_TOKEN = null)
    /\ [][/\ \A r \in Reqs :
               /\ (pc[r] = "refreshing" /\ Delivered(r) /\ resp[r].status \notin 200..299) =>
                    lockout' = "rejected"
               /\ (FeedStarted(r) /\ mode = "refresh" /\ lockout = "rejected") =>
                    FailsAuthRequired(r) /\ lockout' = "rejected"
               /\ RecoversAfterExchange(r)
          /\ (lockout = "rejected" /\ lockout' # "rejected") =>
               \E r \in Reqs :
                   /\ Delivered(r)
                   /\ resp[r].status \in 200..299
                   /\ pc[r] \in {"exchanging", "refreshing"}
                   /\ pc[r] = "refreshing" => lockout' = "overtaken"
                   /\ pc[r] = "exchanging" => lockout' = "recovered"]_vars

\* After a rejected refresh call a request failed with the
\* authorization-required error, a callback then completed an exchange, and the
\* request after it is served with the exchanged token.
C14_Witness ==
    /\ lockout = "recovered"
    /\ last = "feed_after_exchange_ok"
    /\ pc[1] = "listing"
    /\ tokenCalls[1] = 0
    /\ token[1] = ACCESS_TOKEN
    /\ token[1] # null
    /\ pc[2] = "done"
    /\ hist[2].route = "feed"
    /\ hist[2].lockout = "rejected"
    /\ res[2].message = AuthRequiredMsg

\* The handler of request r reads a non-2xx answer to its exchange call.
ExchangeRejected(r) ==
    /\ pc[r] = "exchanging"
    /\ Delivered(r)
    /\ resp[r].status \notin 200..299

\* C15 -- Failed authorization-code exchange: the callback handler sends one
\* exchange call and no second one; when the call is answered non-2xx it
\* answers 500, not a redirect, and neither its start nor its end changes
\* ACCESS_TOKEN, REFRESH_TOKEN or TOKEN_EXPIRY; the /ai-feed request that
\* follows is served from the cache when a token was cached and is still valid.
C15_FailedExchange ==
    [][\A r \in Reqs :
          /\ (pc[r] # "exchanging" /\ pc'[r] = "exchanging") =>
               tokenCalls'[r] = 1 /\ tokenState' = tokenState
          /\ ExchangeRejected(r) =>
               /\ tokenCalls[r] = 1
               /\ tokenCalls'[r] = 1
               /\ pc'[r] = "done"
               /\ res'[r].status = 500
               /\ res'[r].kind = "error"
               /\ res'[r].location = ""
               /\ tokenState' = tokenState
          /\ (FeedStarted(r) /\ last = "exchange_fail" /\ FreshToken) =>
               CacheHit(r)]_vars

\* A callback failed its exchange while a valid token was cached, and the
\* /ai-feed request after it is served with that token.
C15_Witness ==
    /\ last = "feed_after_exchange_fail"
    /\ \E r \in Reqs :
         /\ pc[r] = "listing"
         /\ hist[r].route = "feed"
         /\ tokenCalls[r] = 0
         /\ token[r] = ACCESS_TOKEN
         /\ token[r] # null

\* The fetch loop of request r reads a listing answer of exactly 100 records.
FullPageRead(r) ==
    /\ mode = "refresh"
    /\ pc[r] = "listing"
    /\ Len(hist'[r].sizes) = Len(hist[r].sizes) + 1
    /\ hist'[r].sizes[Len(hist'[r].sizes)] = 100

\* C16 -- Pagination termination: after a listing answer of exactly 100
\* records the loop sends the next listing call, whatever the page number, and
\* as long as every answer had 100 records the request has sent no response;
\* a request that has ended after a listing call was answered a page of fewer
\* than 100 records or a non-2xx status; and once the loop has ended on such a
\* page the request does send its response.
C16_PaginationTermination ==
    /\ [][\A r \in Reqs :
            FullPageRead(r) =>
                /\ pc'[r] = "listing"
                /\ page'[r] = page[r] + 1
                /\ listCalls'[r] = listCalls[r] + 1
                /\ res'[r] = NoRes]_vars
    /\ [](\A r \in Reqs :
            /\ (mode = "refresh" /\ pc[r] = "listing") =>
                 /\ res[r] = NoRes
                 /\ \A i \in 1..Len(hist[r].sizes) : hist[r].sizes[i] = 100
            /\ (mode = "refresh" /\ pc[r] \in {"reading", "done"}
                  /\ hist[r].route = "feed" /\ listCalls[r] >= 1) =>
                 \/ hist[r].upStatus # 0
                 \/ /\ hist[r].sizes # <<>>
                    /\ hist[r].sizes[Len(hist[r].sizes)] < 100)
    /\ \A r \in Reqs : [](pc[r] = "reading" => <>(pc[r] = "done" /\ res[r].status \in {200, 500}))

\* Every page so far was answered with 100 records: the request has sent no
\* response and its next listing call is out.
C16_Witness ==
    \E r \in Reqs :
        /\ pc[r] = "listing"
        /\ hist[r].sizes = [i \in 1..MaxPages |-> 100]
        /\ listCalls[r] = MaxPages + 1
        /\ page[r] = MaxPages + 1
        /\ res[r] = NoRes

\* The handler of request r is between its start and its response.
Running(r) == pc[r] \notin {"idle", "done"}

\* Request r sends a listing call in this step.
ListingCallSent(r) == listCalls'[r] = listCalls[r] + 1 \/ (listCalls[r] # 1 /\ listCalls'[r] = 1)

\* C17 -- Request ordering: a request sends a listing call only while it holds
\* the token getAccessToken returned to it; the token it holds stays the same
\* from one listing call to the next, whatever happens to ACCESS_TOKEN
\* meanwhile; a request whose getAccessToken failed has sent no listing call;
\* a running handler has sent no response, a handler that ends sends one, and
\* the response sent does not change afterwards (a later response at the same
\* place is that of a new request).
C17_RequestOrdering ==
    /\ [](\A r \in Reqs :
            /\ listCalls[r] >= 1 /\ Running(r) => token[r] # null
            /\ pc[r] \in {"refreshing", "granting"} => listCalls[r] = 0 /\ token[r] = null
            /\ Running(r) => res[r] = NoRes
            /\ pc[r] = "done" => res[r].status \in {200, 302, 500})
    /\ [][\A r \in Reqs :
            /\ ListingCallSent(r) =>
                 /\ token'[r] # null
                 /\ pc'[r] \in {"listing", "cclisting"}
                 /\ listCalls[r] >= 1 /\ Running(r) => token'[r] = token[r]
                 /\ pc[r] \in {"refreshing", "granting"} =>
                      token'[r] = resp[r].tokenData.access_token
                 /\ ~Running(r) => token'[r] = ACCESS_TOKEN
            /\ (pc[r] \in {"listing", "cclisting", "reading"} /\ Running(r)') =>
                 token'[r] = token[r]
            /\ (pc[r] \in {"refreshing", "granting"} /\ pc'[r] = "done") =>
                 listCalls'[r] = 0
            /\ (FeedStarted(r) /\ pc'[r] = "done") => listCalls'[r] = 0
            /\ (pc[r] = "done" /\ pc'[r] = "done" /\ res'[r] # res[r]) =>
                 hist'[r] = [NoHist EXCEPT !.route = hist'[r].route, !.lockout = lockout]]_vars

\* A request has sent its second listing call with the token it got at its
\* start, although another request has cleared or replaced ACCESS_TOKEN since.
C17_Witness ==
    \E r \in Reqs :
        /\ mode = "refresh"
        /\ pc[r] = "listing"
        /\ listCalls[r] = 2
        /\ token[r] # null
        /\ ACCESS_TOKEN # token[r]

\* C18 -- Access token implies refresh token: in the refresh variant, with a
\* token endpoint whose every 2xx answer to an exchange carries a refresh token
\* (SpecPair), a non-empty ACCESS_TOKEN comes with a non-empty REFRESH_TOKEN in
\* every reachable state.
C18_Original ==
    mode = "refresh" => (ACCESS_TOKEN # null => REFRESH_TOKEN # null)

\* The handler of request r takes a step of its listing or rendering part.
ListingStep(r) ==
    /\ pc[r] \in {"listing", "reading", "cclisting"}
    /\ pc'[r] # pc[r] \/ hist'[r] # hist[r]

\* C19 -- Listing and rendering never touch TokenState: no step of the fetch
\* loop, the JSON-LD mapping or the template splice changes ACCESS_TOKEN,
\* REFRESH_TOKEN or TOKEN_EXPIRY, a rejected listing page included; and the
\* /ai-feed request that follows a rejected page, the clock before the expiry
\* margin, gets the cached token again without a call to the token endpoint.
C19_ListingFrame ==
    [][\A r \in Reqs :
          /\ ListingStep(r) => tokenState' = tokenState
          /\ (FeedStarted(r) /\ last = "listing_fail" /\ FreshToken) =>
               /\ CacheHit(r)
               /\ token'[r] = ACCESS_TOKEN
               /\ token'[r] # null]_vars

\* The request after a rejected listing page is served with the cached token.
C19_Witness ==
    /\ last = "feed_after_listing_fail"
    /\ \E r \in Reqs :
         /\ pc[r] = "listing"
         /\ tokenCalls[r] = 0
         /\ token[r] = ACCESS_TOKEN
         /\ token[r] # null

\* A handler reads a 2xx answer of the token endpoint in this step and
\* writes ACCESS_TOKEN and TOKEN_EXPIRY from it.
WrittenFromOneResponse ==
    \E r \in Reqs :
        /\ pc[r] \in {"refreshing", "exchanging", "granting"}
        /\ Delivered(r)
        /\ resp[r].status \in 200..299
        /\ ACCESS_TOKEN' = resp[r].tokenData.access_token
        /\ TOKEN_EXPIRY' = now + resp[r].tokenData.expires_in * 1000
        /\ expiryFrom' = resp[r].tokenData.access_token

\* C20 -- Token and expiry stay paired: every step that writes TOKEN_EXPIRY,
\* or writes a token into ACCESS_TOKEN, writes both from one answer of the
\* token endpoint, and in every reachable state a non-empty ACCESS_TOKEN is
\* the access token of the answer TOKEN_EXPIRY was last written from.
C20_TokenExpiryPaired ==
    /\ [](ACCESS_TOKEN # null => expiryFrom = ACCESS_TOKEN)
    /\ [][(\/ TOKEN_EXPIRY' # TOKEN_EXPIRY
           \/ expiryFrom' # expiryFrom
           \/ (ACCESS_TOKEN' # ACCESS_TOKEN /\ ACCESS_TOKEN' # null)) =>
              WrittenFromOneResponse]_vars

\* Two overlapping callbacks both had their exchange accepted, and the answer
\* issued first was written last: the cache holds its token and its expiry.
C20_Witness ==
    /\ mode = "refresh"
    /\ issued = 2
    /\ ACCESS_TOKEN = 1
    /\ expiryFrom = 1
    /\ last = "exchange_ok"
    /\ \A r \in Reqs :
         /\ pc[r] = "done"
         /\ hist[r].route = "callback"
         /\ res[r] = Redirect("/ai-feed")

====
